---- MODULE Spec2Model ----
(***************************************************************************)
(* Model of the two command-line programs of the repository:               *)
(*   FinetuningOlama/finetuning.py       (PhiFineTuner and its main)       *)
(*   FinetuningOllama/convert_to_gguf.py (main of the converter)           *)
(* Python strings are TLA+ strings; the string functions the programs use  *)
(* (str.upper, str.replace, str.endswith, the in operator, json.dumps) are *)
(* operators computed character by character.                              *)
(***************************************************************************)
EXTENDS Integers, Sequences, FiniteSets, TLC

VARIABLES
    args,               \* argparse result: [nur_test, kein_export, quantization, input_existiert]
    datei,              \* the file at args.daten: [art, inhalt]
    cuda_vorhanden,     \* what torch.cuda.is_available() answers on this machine
    bf16_unterstuetzt,  \* what torch.cuda.is_bf16_supported() answers on this machine
    pc,                 \* position in main
    gpu_verfuegbar,     \* PhiFineTuner.gpu_verfuegbar
    rohdaten,           \* PhiFineTuner.rohdaten
    dataset,            \* PhiFineTuner.dataset: the "text" column
    aufrufe,            \* the methods and library calls executed so far, in order
    bibliothek_fehler,  \* the library calls that raised
    fehler,             \* the exception that left main ([klasse, ort]; klasse "" if none)
    ausgabe,            \* the messages printed that the claims speak about
    trainer_args,       \* the precision flags handed to TrainingArguments
    bf16_abfragen,      \* number of calls of torch.cuda.is_bf16_supported()
    ordner_inhalt,      \* os.listdir of the export directory after the export call
    rueckgabe           \* the converter's exit code (-1: main has not returned)

vars == <<args, datei, cuda_vorhanden, bf16_unterstuetzt, pc, gpu_verfuegbar,
          rohdaten, dataset, aufrufe, bibliothek_fehler, fehler, ausgabe, trainer_args,
          bf16_abfragen, ordner_inhalt, rueckgabe>>

(***************************************************************************)
(* Bounds of the model.                                                    *)
(***************************************************************************)
MaxBeispiele == 2     \* longest example collection drawn for the pipeline
MaxTiefe == 2         \* nesting depth of the output values drawn
MaxDateien == 2       \* most files in the export directory

(***************************************************************************)
(* Python string functions.                                                *)
(***************************************************************************)
Zeichen(s, i) == SubSeq(s, i, i)

Ab(s, i) == SubSeq(s, i, Len(s))

\* sub in s
Enthaelt(sub, s) ==
    \E i \in 0..(Len(s) - Len(sub)) : SubSeq(s, i + 1, i + Len(sub)) = sub

\* s.endswith(suffix)
EndsWith(s, suffix) ==
    /\ Len(suffix) <= Len(s)
    /\ SubSeq(s, Len(s) - Len(suffix) + 1, Len(s)) = suffix

\* s.startswith(prefix, i - 1)
BeginntBei(s, i, prefix) ==
    /\ i + Len(prefix) - 1 <= Len(s)
    /\ SubSeq(s, i, i + Len(prefix) - 1) = prefix

Kleinbuchstaben == "abcdefghijklmnopqrstuvwxyz"
Grossbuchstaben == "ABCDEFGHIJKLMNOPQRSTUVWXYZ"

UpperZeichen(c) ==
    IF \E i \in 1..Len(Kleinbuchstaben) : Zeichen(Kleinbuchstaben, i) = c
    THEN Zeichen(Grossbuchstaben,
                 CHOOSE i \in 1..Len(Kleinbuchstaben) : Zeichen(Kleinbuchstaben, i) = c)
    ELSE c

RECURSIVE Upper(_)
\* s.upper()
Upper(s) ==
    IF s = "" THEN "" ELSE UpperZeichen(Zeichen(s, 1)) \o Upper(Ab(s, 2))

RECURSIVE Replace(_, _, _)
\* s.replace(alt, neu) for a one-character alt
Replace(s, alt, neu) ==
    IF s = "" THEN ""
    ELSE (IF Zeichen(s, 1) = alt THEN neu ELSE Zeichen(s, 1)) \o Replace(Ab(s, 2), alt, neu)

\* os.path.join(ordner, name) for a relative name
PathJoin(ordner, name) ==
    IF ordner = "" \/ EndsWith(ordner, "/") THEN ordner \o name ELSE ordner \o "/" \o name

(***************************************************************************)
(* JSON values as json.load returns them: str, int, bool, None, list and   *)
(* dict (keys in insertion order).  Every value is a record of one shape.  *)
(***************************************************************************)
JStr(s)     == [t |-> "str",  s |-> s,  n |-> 0, k |-> <<>>, e |-> <<>>]
JInt(n)     == [t |-> "int",  s |-> "", n |-> n, k |-> <<>>, e |-> <<>>]
JBool(b)    == [t |-> "bool", s |-> "", n |-> IF b THEN 1 ELSE 0, k |-> <<>>, e |-> <<>>]
JNull       == [t |-> "null", s |-> "", n |-> 0, k |-> <<>>, e |-> <<>>]
JList(e)    == [t |-> "list", s |-> "", n |-> 0, k |-> <<>>, e |-> e]
JDict(k, e) == [t |-> "dict", s |-> "", n |-> 0, k |-> k, e |-> e]

Ziffern == "0123456789"

RECURSIVE NatToStr(_)
NatToStr(n) ==
    IF n < 10 THEN Zeichen(Ziffern, n + 1)
    ELSE NatToStr(n \div 10) \o Zeichen(Ziffern, (n % 10) + 1)

\* int.__repr__
IntToStr(n) == IF n < 0 THEN "-" \o NatToStr(0 - n) ELSE NatToStr(n)

\* a json.dumps that escapes nothing
EscapeZeichenOhne(c) == c

\* json.encoder.ESCAPE_DCT, as far as a TLA+ string can hold the character
EscapeZeichen(c) ==
    CASE c = "\"" -> "\\\""
      [] c = "\\" -> "\\\\"
      [] c = "\n" -> "\\n"
      [] c = "\r" -> "\\r"
      [] c = "\t" -> "\\t"
      [] c = "\f" -> "\\f"
      [] OTHER    -> c

RECURSIVE EscapeString(_)
EscapeString(s) ==
    IF s = "" THEN "" ELSE EscapeZeichen(Zeichen(s, 1)) \o EscapeString(Ab(s, 2))

\* json.encoder.py_encode_basestring: what ensure_ascii=False selects
py_encode_basestring(s) == "\"" \o EscapeString(s) \o "\""

item_separator == ", "
key_separator == ": "

RECURSIVE json_dumps(_), DumpsListe(_, _), DumpsDict(_, _, _)
\* json.dumps(v, ensure_ascii=False)
json_dumps(v) ==
    CASE v.t = "str"  -> py_encode_basestring(v.s)
      [] v.t = "int"  -> IntToStr(v.n)
      [] v.t = "bool" -> IF v.n = 1 THEN "true" ELSE "false"
      [] v.t = "null" -> "null"
      [] v.t = "list" -> "[" \o DumpsListe(v.e, 1) \o "]"
      [] v.t = "dict" -> "{" \o DumpsDict(v.k, v.e, 1) \o "}"

DumpsListe(e, i) ==
    IF i > Len(e) THEN ""
    ELSE (IF i > 1 THEN item_separator ELSE "") \o json_dumps(e[i]) \o DumpsListe(e, i + 1)

DumpsDict(k, e, i) ==
    IF i > Len(k) THEN ""
    ELSE (IF i > 1 THEN item_separator ELSE "")
         \o py_encode_basestring(k[i]) \o key_separator \o json_dumps(e[i])
         \o DumpsDict(k, e, i + 1)

(***************************************************************************)
(* json.loads, the deserializer of the round trip: the scanner of          *)
(* json.decoder (strict), for the values above.  A parse answers           *)
(* [ok, wert, pos], pos the index of the first character not consumed.     *)
(***************************************************************************)
Misslungen == [ok |-> FALSE, wert |-> JNull, pos |-> 0]

Gelungen(wert, pos) == [ok |-> TRUE, wert |-> wert, pos |-> pos]

IstWhitespace(c) == c \in {" ", "\t", "\n", "\r"}

IstZiffer(c) == \E i \in 1..Len(Ziffern) : Zeichen(Ziffern, i) = c

ZifferWert(c) == (CHOOSE i \in 1..Len(Ziffern) : Zeichen(Ziffern, i) = c) - 1

\* the characters a strict JSON string may not hold unescaped
IstSteuerzeichen(c) == c \in {"\n", "\r", "\t", "\f"}

RECURSIVE SkipWhitespace(_, _)
SkipWhitespace(s, i) ==
    IF i <= Len(s) /\ IstWhitespace(Zeichen(s, i)) THEN SkipWhitespace(s, i + 1) ELSE i

\* json.decoder.BACKSLASH
Backslash(c) ==
    CASE c = "\"" -> "\""
      [] c = "\\" -> "\\"
      [] c = "/"  -> "/"
      [] c = "n"  -> "\n"
      [] c = "r"  -> "\r"
      [] c = "t"  -> "\t"
      [] c = "f"  -> "\f"
      [] OTHER    -> ""

RECURSIVE ScanString(_, _, _)
\* json.decoder.py_scanstring from the character after the opening quote
ScanString(s, i, acc) ==
    IF i > Len(s) THEN Misslungen
    ELSE LET c == Zeichen(s, i) IN
         CASE c = "\"" -> Gelungen(JStr(acc), i + 1)
           [] c = "\\" ->
                IF i + 1 > Len(s) \/ Backslash(Zeichen(s, i + 1)) = "" THEN Misslungen
                ELSE ScanString(s, i + 2, acc \o Backslash(Zeichen(s, i + 1)))
           [] IstSteuerzeichen(c) -> Misslungen
           [] OTHER -> ScanString(s, i + 1, acc \o c)

RECURSIVE ScanZiffern(_, _, _)
ScanZiffern(s, i, n) ==
    IF i <= Len(s) /\ IstZiffer(Zeichen(s, i))
    THEN ScanZiffern(s, i + 1, 10 * n + ZifferWert(Zeichen(s, i)))
    ELSE [n |-> n, pos |-> i]

\* json.scanner.NUMBER_RE, the integer part; a fraction or exponent is a float
ScanNumber(s, i) ==
    LET neg == Zeichen(s, i) = "-"
        j   == IF neg THEN i + 1 ELSE i
    IN  IF j > Len(s) \/ ~IstZiffer(Zeichen(s, j)) THEN Misslungen
        ELSE LET z == IF Zeichen(s, j) = "0" THEN [n |-> 0, pos |-> j + 1]
                      ELSE ScanZiffern(s, j, 0)
             IN  IF z.pos <= Len(s) /\ Zeichen(s, z.pos) \in {".", "e", "E"}
                 THEN Misslungen
                 ELSE Gelungen(JInt(IF neg THEN 0 - z.n ELSE z.n), z.pos)

\* dict[key] = wert: a key already present keeps its place
DictSetze(d, key, wert) ==
    IF \E i \in 1..Len(d.k) : d.k[i] = key
    THEN LET i == CHOOSE i \in 1..Len(d.k) : d.k[i] = key
         IN  JDict(d.k, [d.e EXCEPT ![i] = wert])
    ELSE JDict(Append(d.k, key), Append(d.e, wert))

RECURSIVE ScanOnce(_, _), JSONArray(_, _, _), JSONObject(_, _, _)
\* json.scanner.py_make_scanner._scan_once
ScanOnce(s, i) ==
    IF i > Len(s) THEN Misslungen
    ELSE LET c == Zeichen(s, i) IN
         CASE c = "\"" -> ScanString(s, i + 1, "")
           [] c = "{" ->
                LET j == SkipWhitespace(s, i + 1)
                IN  IF j <= Len(s) /\ Zeichen(s, j) = "}"
                    THEN Gelungen(JDict(<<>>, <<>>), j + 1)
                    ELSE JSONObject(s, j, JDict(<<>>, <<>>))
           [] c = "[" ->
                LET j == SkipWhitespace(s, i + 1)
                IN  IF j <= Len(s) /\ Zeichen(s, j) = "]"
                    THEN Gelungen(JList(<<>>), j + 1)
                    ELSE JSONArray(s, j, <<>>)
           [] c = "n" /\ BeginntBei(s, i, "null")  -> Gelungen(JNull, i + 4)
           [] c = "t" /\ BeginntBei(s, i, "true")  -> Gelungen(JBool(TRUE), i + 4)
           [] c = "f" /\ BeginntBei(s, i, "false") -> Gelungen(JBool(FALSE), i + 5)
           [] c = "-" \/ IstZiffer(c) -> ScanNumber(s, i)
           [] OTHER -> Misslungen

\* json.decoder.JSONArray from the first element
JSONArray(s, i, acc) ==
    LET w == ScanOnce(s, i) IN
    IF ~w.ok THEN Misslungen
    ELSE LET j == SkipWhitespace(s, w.pos) IN
         IF j > Len(s) THEN Misslungen
         ELSE IF Zeichen(s, j) = "]" THEN Gelungen(JList(Append(acc, w.wert)), j + 1)
         ELSE IF Zeichen(s, j) = ","
              THEN JSONArray(s, SkipWhitespace(s, j + 1), Append(acc, w.wert))
         ELSE Misslungen

\* json.decoder.JSONObject from the first key
JSONObject(s, i, acc) ==
    IF i > Len(s) \/ Zeichen(s, i) # "\"" THEN Misslungen
    ELSE LET key == ScanString(s, i + 1, "") IN
         IF ~key.ok THEN Misslungen
         ELSE LET j == SkipWhitespace(s, key.pos) IN
              IF j > Len(s) \/ Zeichen(s, j) # ":" THEN Misslungen
              ELSE LET w == ScanOnce(s, SkipWhitespace(s, j + 1)) IN
                   IF ~w.ok THEN Misslungen
                   ELSE LET m == SkipWhitespace(s, w.pos)
                            d == DictSetze(acc, key.wert.s, w.wert)
                        IN  IF m > Len(s) THEN Misslungen
                            ELSE IF Zeichen(s, m) = "}" THEN Gelungen(d, m + 1)
                            ELSE IF Zeichen(s, m) = ","
                                 THEN JSONObject(s, SkipWhitespace(s, m + 1), d)
                            ELSE Misslungen

\* json.loads(s): [ok, wert]; ok is FALSE where json.loads raises JSONDecodeError
json_loads(s) ==
    LET w == ScanOnce(s, SkipWhitespace(s, 1)) IN
    IF w.ok /\ SkipWhitespace(s, w.pos) = Len(s) + 1
    THEN [ok |-> TRUE, wert |-> w.wert]
    ELSE [ok |-> FALSE, wert |-> JNull]

(***************************************************************************)
(* finetuning.py: the data steps.                                          *)
(* An entry of the loaded list is [art, hat_input, input, hat_output,      *)
(* output]: art "dict" for a JSON object, "sonst" for any other JSON       *)
(* value; hat_input and hat_output say whether the object has the key.     *)
(***************************************************************************)
Eintrag(input, output) ==
    [art |-> "dict", hat_input |-> TRUE, input |-> input,
     hat_output |-> TRUE, output |-> output]

OhneOutput(input) ==
    [art |-> "dict", hat_input |-> TRUE, input |-> input,
     hat_output |-> FALSE, output |-> JNull]

OhneInput(output) ==
    [art |-> "dict", hat_input |-> FALSE, input |-> "",
     hat_output |-> TRUE, output |-> output]

KeinDict ==
    [art |-> "sonst", hat_input |-> FALSE, input |-> "",
     hat_output |-> FALSE, output |-> JNull]

KeinFehler == [klasse |-> "", ort |-> ""]

Meldung(art, text) == [art |-> art, text |-> text]

\* s[:100]
Slice100(s) == SubSeq(s, 1, IF Len(s) < 100 THEN Len(s) ELSE 100)

\* beispiel['input'] and beispiel['output']: the exception the two subscripts raise
SubskriptFehler(beispiel) ==
    CASE beispiel.art # "dict" -> "TypeError"
      [] ~beispiel.hat_input   -> "KeyError"
      [] ~beispiel.hat_output  -> "KeyError"
      [] OTHER                 -> ""

\* PhiFineTuner.lade_daten: [klasse, rohdaten, ausgabe]
lade_daten(d) ==
    CASE d.art = "fehlt" ->
            [klasse |-> "FileNotFoundError", rohdaten |-> <<>>, ausgabe |-> <<>>]
      [] d.art = "ungueltig" ->
            [klasse |-> "JSONDecodeError", rohdaten |-> <<>>, ausgabe |-> <<>>]
      [] d.art = "objekt" ->
            [klasse |-> "KeyError", rohdaten |-> <<>>,
             ausgabe |-> <<Meldung("geladen", "0")>>]
      [] d.art = "liste" /\ Len(d.inhalt) = 0 ->
            [klasse |-> "IndexError", rohdaten |-> d.inhalt,
             ausgabe |-> <<Meldung("geladen", "0")>>]
      [] d.art = "liste" /\ Len(d.inhalt) > 0 ->
            [klasse |-> SubskriptFehler(d.inhalt[1]), rohdaten |-> d.inhalt,
             ausgabe |-> <<Meldung("geladen", IntToStr(Len(d.inhalt)))>> \o
                 (IF SubskriptFehler(d.inhalt[1]) = ""
                  THEN <<Meldung("Input", Slice100(d.inhalt[1].input) \o "..."),
                         Meldung("Output", json_dumps(d.inhalt[1].output))>>
                  ELSE <<>>)]

\* formatiere_prompt with beispiel.get('output') for beispiel['output']
formatiere_prompt_get(beispiel) ==
    IF beispiel.art # "dict" \/ ~beispiel.hat_input
    THEN [klasse |-> SubskriptFehler(beispiel), text |-> ""]
    ELSE [klasse |-> "",
          text |-> "### Eingabe: " \o beispiel.input \o "\n### Ausgabe: "
                   \o json_dumps(beispiel.output) \o "<|endoftext|>"]

\* PhiFineTuner.formatiere_prompt: [klasse, text]
formatiere_prompt(beispiel) ==
    IF SubskriptFehler(beispiel) # ""
    THEN [klasse |-> SubskriptFehler(beispiel), text |-> ""]
    ELSE [klasse |-> "",
          text |-> "### Eingabe: " \o beispiel.input \o "\n### Ausgabe: "
                   \o json_dumps(beispiel.output) \o "<|endoftext|>"]

RECURSIVE Formatiere(_, _, _)
\* [self.formatiere_prompt(item) for item in self.rohdaten] from item i on
Formatiere(daten, i, acc) ==
    IF i > Len(daten) THEN [klasse |-> "", dataset |-> acc]
    ELSE LET f == formatiere_prompt(daten[i]) IN
         IF f.klasse # "" THEN [klasse |-> f.klasse, dataset |-> <<>>]
         ELSE Formatiere(daten, i + 1, Append(acc, f.text))

\* bereite_dataset_vor that keeps the renderings in reverse order
bereite_dataset_vor_umgekehrt(daten) ==
    LET r == Formatiere(daten, 1, <<>>) IN
    [klasse |-> r.klasse,
     dataset |-> [i \in 1..Len(r.dataset) |-> r.dataset[Len(r.dataset) + 1 - i]]]

\* PhiFineTuner.bereite_dataset_vor: [klasse, dataset]
bereite_dataset_vor(daten) == Formatiere(daten, 1, <<>>)

(***************************************************************************)
(* finetuning.py: precision selection and the export.                      *)
(***************************************************************************)
\* precision selection that does not look at gpu_verfuegbar
PraezisionOhneGpu(gpu, bf16) == [gesetzt |-> TRUE, fp16 |-> ~bf16, bf16 |-> bf16]

\* precision selection with fp16 on whenever a GPU is there
PraezisionImmerFp16(gpu, bf16) ==
    [gesetzt |-> TRUE, fp16 |-> gpu, bf16 |-> IF gpu THEN bf16 ELSE FALSE]

\* the fp16 and bf16 arguments of TrainingArguments
Praezision(gpu, bf16) ==
    [gesetzt |-> TRUE,
     fp16 |-> IF gpu THEN ~bf16 ELSE FALSE,
     bf16 |-> IF gpu THEN bf16 ELSE FALSE]

\* how often the two conditional expressions call torch.cuda.is_bf16_supported()
Bf16Abfragen(gpu) == IF gpu THEN 2 ELSE 0

\* the match without .upper() on the file name
PasstZuQuantisierungOhneUpper(quantisierung, name) ==
    Enthaelt(Replace(Upper(quantisierung), "_", "-"), name)

\* quantisierung.upper().replace("_", "-") in datei.upper()
PasstZuQuantisierung(quantisierung, name) ==
    Enthaelt(Replace(Upper(quantisierung), "_", "-"), Upper(name))

\* [f for f in os.listdir(ordner) if f.endswith(".gguf")]
GgufDateien(liste) == SelectSeq(liste, LAMBDA f : EndsWith(f, ".gguf"))

\* the for loop with its break: the first file of gguf_dateien that matches, "" for None
QuantisierteDatei(quantisierung, gguf_dateien) ==
    IF \E i \in 1..Len(gguf_dateien) : PasstZuQuantisierung(quantisierung, gguf_dateien[i])
    THEN gguf_dateien[CHOOSE i \in 1..Len(gguf_dateien) :
            /\ PasstZuQuantisierung(quantisierung, gguf_dateien[i])
            /\ \A j \in 1..(i - 1) : ~PasstZuQuantisierung(quantisierung, gguf_dateien[j])]
    ELSE ""

\* exportiere_gguf with the library call in a try that only warns
exportiere_gguf_faengt(ausgabe_ordner, quantisierung, wirft, existiert, liste) ==
    LET quantisierte_datei == QuantisierteDatei(quantisierung, GgufDateien(liste))
        gguf_pfad == PathJoin(PathJoin(ausgabe_ordner, "gguf_modell"), quantisierte_datei)
    IN  IF ~wirft /\ existiert /\ quantisierte_datei # ""
        THEN [klasse |-> "",
              ausgabe |-> <<Meldung("erfolg", gguf_pfad),
                            Meldung("ollama", "ollama create mein-phi-modell -f " \o gguf_pfad)>>]
        ELSE [klasse |-> "", ausgabe |-> <<Meldung("warnung", "")>>]

\* PhiFineTuner.exportiere_gguf: [klasse, ausgabe]; wirft: save_pretrained_gguf
\* raises; existiert, liste: the export directory after the call
exportiere_gguf(ausgabe_ordner, quantisierung, wirft, existiert, liste) ==
    LET gguf_ordner == PathJoin(ausgabe_ordner, "gguf_modell")
        quantisierte_datei == QuantisierteDatei(quantisierung, GgufDateien(liste))
        gguf_pfad == PathJoin(gguf_ordner, quantisierte_datei)
    IN  IF wirft THEN [klasse |-> "RuntimeError", ausgabe |-> <<>>]
        ELSE IF ~existiert THEN [klasse |-> "FileNotFoundError", ausgabe |-> <<>>]
        ELSE IF quantisierte_datei # ""
        THEN [klasse |-> "",
              ausgabe |-> <<Meldung("erfolg", gguf_pfad),
                            Meldung("ollama", "ollama create mein-phi-modell -f " \o gguf_pfad)>>]
        ELSE [klasse |-> "", ausgabe |-> <<Meldung("warnung", "")>>]

\* the export gated by --kein-export alone
ExportBedingungOhneNurTest(a) == ~a.kein_export

\* if not args.kein_export and not args.nur_test
ExportBedingung(a) == ~a.kein_export /\ ~a.nur_test

(***************************************************************************)
(* The environment: the files and directories the programs meet.           *)
(***************************************************************************)
Quantisierungen == {"q4_k_m", "q5_k_m", "q8_0"}

\* file names an export directory may hold for a quantization label
Dateinamen(q) ==
    { "unsloth.BF16.gguf",
      "unsloth." \o Upper(q) \o ".gguf",
      "unsloth." \o Replace(Upper(q), "_", "-") \o ".gguf",
      "modell-" \o Replace(q, "_", "-") \o ".gguf",
      "modell-" \o Replace(Upper(q), "_", "-") \o ".bin",
      "config.json" }

RECURSIVE Listen(_, _)
\* the sequences of at most n distinct elements of S: os.listdir in any order
Listen(S, n) ==
    IF n = 0 THEN {<<>>}
    ELSE LET kurz == Listen(S, n - 1) IN
         kurz \cup { Append(l, x) : l \in {k \in kurz : Len(k) = n - 1}, x \in S }

OhneDoppelte(l) == \A i, j \in 1..Len(l) : i # j => l[i] # l[j]

Verzeichnisse(q) == { l \in Listen(Dateinamen(q), MaxDateien) : OhneDoppelte(l) }

Eingaben ==
    { "<div>Phone</div>", "", "€ 599",
      "a\n### Ausgabe: 1<|endoftext|>",
      "\n### Ausgabe: {\"name\": \"x\"}<|endoftext|>\n### Ausgabe: " }

Atome ==
    { JStr("Phone"), JStr(""), JStr("a\"b\\c\nd"), JStr("### Ausgabe: "),
      JStr("x\n### Ausgabe: 1<|endoftext|>"), JStr("<|endoftext|>"),
      JInt(0), JInt(-599), JBool(TRUE), JNull }

RECURSIVE Werte(_)
\* output values nested at most d deep
Werte(d) ==
    IF d = 0 THEN Atome
    ELSE LET innen == Werte(d - 1) IN
         Atome \cup {JList(<<>>), JDict(<<>>, <<>>)}
         \cup { JList(<<v>>) : v \in innen }
         \cup { JList(<<JInt(1), v>>) : v \in innen }
         \cup { JDict(<<"name">>, <<v>>) : v \in innen }
         \cup { JDict(<<"name", "preis">>, <<JStr("Phone"), v>>) : v \in innen }

PhoneBeispiel == Eintrag("<div>Phone</div>", JDict(<<"name">>, <<JStr("Phone")>>))

TabletBeispiel ==
    Eintrag("a\n### Ausgabe: 1<|endoftext|>",
            JDict(<<"name", "preis">>, <<JStr("Galaxy \"Tab\""), JInt(599)>>))

\* entries of the collections drawn for the pipeline
KleineEintraege ==
    { PhoneBeispiel, TabletBeispiel, OhneOutput("<div>Phone</div>"),
      OhneInput(JStr("Phone")), KeinDict }

\* entries of the one-example collections drawn for the renderer
ReicheEintraege == { Eintrag(i, o) : i \in Eingaben, o \in Werte(MaxTiefe) }

Datei(art, inhalt) == [art |-> art, inhalt |-> inhalt]

AndereDateien == { Datei("fehlt", <<>>), Datei("ungueltig", <<>>), Datei("objekt", <<>>) }

KleineDateien ==
    AndereDateien \cup { Datei("liste", l) : l \in Listen(KleineEintraege, MaxBeispiele) }

ReicheDateien ==
    KleineDateien \cup { Datei("liste", <<e>>) : e \in ReicheEintraege }

(***************************************************************************)
(* finetuning.py: main, one action per statement of lines 329-356.         *)
(***************************************************************************)
TrainerArgs ==
    { [daten |-> "produktdaten_deutsch.json", ausgabe |-> "ausgabe",
       nur_test |-> n, kein_export |-> k] : n, k \in BOOLEAN }

KeineTrainerArgs == [gesetzt |-> FALSE, fp16 |-> FALSE, bf16 |-> FALSE]

InitMit(argumente, dateien, bf16) ==
    /\ args \in argumente
    /\ datei \in dateien
    /\ cuda_vorhanden \in BOOLEAN
    /\ bf16_unterstuetzt \in bf16
    /\ pc = "start"
    /\ gpu_verfuegbar = FALSE
    /\ rohdaten = <<>>
    /\ dataset = <<>>
    /\ aufrufe = <<>>
    /\ bibliothek_fehler = {}
    /\ fehler = KeinFehler
    /\ ausgabe = <<>>
    /\ trainer_args = KeineTrainerArgs
    /\ bf16_abfragen = 0
    /\ ordner_inhalt = <<>>
    /\ rueckgabe = -1

Init == InitMit(TrainerArgs, KleineDateien, BOOLEAN)

\* the renderer's inputs: the flags of main do not reach the data steps
InitPrompt == InitMit({a \in TrainerArgs : ~a.nur_test /\ ~a.kein_export}, ReicheDateien, {FALSE})

\* what a library call leaves behind: it returned, or it raised
Bibliothek(name, wirft) ==
    bibliothek_fehler' = IF wirft THEN bibliothek_fehler \cup {name} ELSE bibliothek_fehler

\* an exception leaves the method at ort and, uncaught, main
Abbruch(klasse, ort) ==
    /\ fehler' = [klasse |-> klasse, ort |-> ort]
    /\ pc' = "abgebrochen"

\* tuner = PhiFineTuner(args.daten, args.ausgabe)
MainInit ==
    /\ pc = "start"
    /\ gpu_verfuegbar' = cuda_vorhanden
    /\ ausgabe' = Append(ausgabe, Meldung(IF cuda_vorhanden THEN "gpu" ELSE "cpu", ""))
    /\ pc' = "lade_daten"
    /\ UNCHANGED <<args, datei, cuda_vorhanden, bf16_unterstuetzt, rohdaten, dataset, aufrufe,
                   bibliothek_fehler, fehler, trainer_args, bf16_abfragen, ordner_inhalt,
                   rueckgabe>>

\* tuner.lade_daten()
MainLadeDaten ==
    /\ pc = "lade_daten"
    /\ LET r == lade_daten(datei) IN
       /\ aufrufe' = Append(aufrufe, "lade_daten")
       /\ rohdaten' = r.rohdaten
       /\ ausgabe' = ausgabe \o r.ausgabe
       /\ IF r.klasse # "" THEN Abbruch(r.klasse, "lade_daten")
          ELSE pc' = "bereite_dataset_vor" /\ UNCHANGED fehler
    /\ UNCHANGED <<args, datei, cuda_vorhanden, bf16_unterstuetzt, gpu_verfuegbar, dataset,
                   bibliothek_fehler, trainer_args, bf16_abfragen, ordner_inhalt, rueckgabe>>

\* tuner.bereite_dataset_vor()
MainBereiteDatasetVor ==
    /\ pc = "bereite_dataset_vor"
    /\ LET r == bereite_dataset_vor(rohdaten) IN
       /\ aufrufe' = Append(aufrufe, "bereite_dataset_vor")
       /\ IF r.klasse # ""
          THEN Abbruch(r.klasse, "bereite_dataset_vor") /\ UNCHANGED <<dataset, ausgabe>>
          ELSE /\ dataset' = r.dataset
               /\ ausgabe' = Append(ausgabe, Meldung("dataset", IntToStr(Len(r.dataset))))
               /\ pc' = "lade_modell"
               /\ UNCHANGED fehler
    /\ UNCHANGED <<args, datei, cuda_vorhanden, bf16_unterstuetzt, gpu_verfuegbar, rohdaten,
                   bibliothek_fehler, trainer_args, bf16_abfragen, ordner_inhalt, rueckgabe>>

\* a method that only calls the library: the call returns or raises
Bibliotheksschritt(hier, name, danach) ==
    /\ pc = hier
    /\ aufrufe' = Append(aufrufe, name)
    /\ \E wirft \in BOOLEAN :
          /\ Bibliothek(name, wirft)
          /\ IF wirft THEN Abbruch("RuntimeError", name)
             ELSE pc' = danach /\ UNCHANGED fehler
    /\ UNCHANGED <<args, datei, cuda_vorhanden, bf16_unterstuetzt, gpu_verfuegbar, rohdaten,
                   dataset, ausgabe, trainer_args, bf16_abfragen, ordner_inhalt, rueckgabe>>

\* tuner.lade_modell()
MainLadeModell == Bibliotheksschritt("lade_modell", "lade_modell", "konfiguriere_lora")

\* tuner.konfiguriere_lora()
MainKonfiguriereLora == Bibliotheksschritt("konfiguriere_lora", "konfiguriere_lora", "trainiere")

\* if not args.nur_test: tuner.trainiere(...)
MainTrainiere ==
    /\ pc = "trainiere"
    /\ \/ /\ ~args.nur_test
          /\ aufrufe' = Append(aufrufe, "trainiere")
          /\ trainer_args' = Praezision(gpu_verfuegbar, bf16_unterstuetzt)
          /\ bf16_abfragen' = bf16_abfragen + Bf16Abfragen(gpu_verfuegbar)
          /\ \E wirft \in BOOLEAN :
                /\ Bibliothek("trainiere", wirft)
                /\ IF wirft THEN Abbruch("RuntimeError", "trainiere")
                   ELSE pc' = "teste_modell" /\ UNCHANGED fehler
       \/ /\ args.nur_test
          /\ pc' = "teste_modell"
          /\ UNCHANGED <<aufrufe, bibliothek_fehler, trainer_args, bf16_abfragen, fehler>>
    /\ UNCHANGED <<args, datei, cuda_vorhanden, bf16_unterstuetzt, gpu_verfuegbar, rohdaten,
                   dataset, ausgabe, ordner_inhalt, rueckgabe>>

\* tuner.teste_modell()
MainTesteModell == Bibliotheksschritt("teste_modell", "teste_modell", "exportiere_gguf")

\* the export directory once save_pretrained_gguf has returned: the library
\* writes into the directory it is given, so the directory exists
OrdnerNachExport(q) == { [existiert |-> TRUE, liste |-> l] : l \in Verzeichnisse(q) }

\* if not args.kein_export and not args.nur_test: tuner.exportiere_gguf()
\* print("Fertig!")
MainExportiereGguf ==
    /\ pc = "exportiere_gguf"
    /\ \/ /\ ExportBedingung(args)
          /\ aufrufe' = Append(aufrufe, "exportiere_gguf")
          /\ \E wirft \in BOOLEAN :
             \E o \in (IF wirft THEN {[existiert |-> FALSE, liste |-> <<>>]}
                       ELSE OrdnerNachExport("q4_k_m")) :
                LET r == exportiere_gguf(args.ausgabe, "q4_k_m", wirft, o.existiert, o.liste) IN
                /\ Bibliothek("save_pretrained_gguf", wirft)
                /\ ordner_inhalt' = o.liste
                /\ IF r.klasse # ""
                   THEN Abbruch(r.klasse, "exportiere_gguf") /\ ausgabe' = ausgabe \o r.ausgabe
                   ELSE /\ ausgabe' = ausgabe \o r.ausgabe \o <<Meldung("fertig", "")>>
                        /\ pc' = "fertig"
                        /\ UNCHANGED fehler
       \/ /\ ~ExportBedingung(args)
          /\ ausgabe' = Append(ausgabe, Meldung("fertig", ""))
          /\ pc' = "fertig"
          /\ UNCHANGED <<aufrufe, bibliothek_fehler, fehler, ordner_inhalt>>
    /\ UNCHANGED <<args, datei, cuda_vorhanden, bf16_unterstuetzt, gpu_verfuegbar, rohdaten,
                   dataset, trainer_args, bf16_abfragen, rueckgabe>>

Next ==
    \/ MainInit
    \/ MainLadeDaten
    \/ MainBereiteDatasetVor
    \/ MainLadeModell
    \/ MainKonfiguriereLora
    \/ MainTrainiere
    \/ MainTesteModell
    \/ MainExportiereGguf

Spec == Init /\ [][Next]_vars

\* the data steps alone, on the files drawn for the renderer
NextPrompt ==
    \/ MainInit
    \/ MainLadeDaten
    \/ MainBereiteDatasetVor

SpecPrompt == InitPrompt /\ [][NextPrompt]_vars

(***************************************************************************)
(* convert_to_gguf.py: main, lines 58-107.  datei is what lies at          *)
(* args.input: art "modell" for a saved model, "fehlt" for no such path.   *)
(***************************************************************************)
KonverterArgs ==
    { [input |-> "ausgabe/gguf_modell/", output |-> "ausgabe/gguf_final", quantization |-> q] :
        q \in Quantisierungen }

InitKonverter ==
    /\ args \in KonverterArgs
    /\ datei \in {Datei("modell", <<>>), Datei("fehlt", <<>>)}
    /\ cuda_vorhanden = FALSE
    /\ bf16_unterstuetzt = FALSE
    /\ pc = "laden"
    /\ gpu_verfuegbar = FALSE
    /\ rohdaten = <<>>
    /\ dataset = <<>>
    /\ aufrufe = <<>>
    /\ bibliothek_fehler = {}
    /\ fehler = KeinFehler
    /\ ausgabe = <<>>
    /\ trainer_args = KeineTrainerArgs
    /\ bf16_abfragen = 0
    /\ ordner_inhalt = <<>>
    /\ rueckgabe = -1

\* the load without its try
KonverterLadenOhneTry(wirft) ==
    [rueckgabe |-> -1, klasse |-> IF wirft THEN "RuntimeError" ELSE "", ausgabe |-> <<>>]

\* lines 59-69, the try around FastLanguageModel.from_pretrained:
\* [rueckgabe, klasse, ausgabe]; rueckgabe -1: main goes on
KonverterLaden(wirft) ==
    IF wirft
    THEN [rueckgabe |-> 1, klasse |-> "",
          ausgabe |-> <<Meldung("fehler_laden", ""), Meldung("hinweis_pfad", "")>>]
    ELSE [rueckgabe |-> -1, klasse |-> "", ausgabe |-> <<>>]

RECURSIVE ZeigeDateien(_, _, _, _)
\* the for loop of lines 97-105 from file i on
ZeigeDateien(a, gguf_dateien, i, acc) ==
    IF i > Len(gguf_dateien) THEN acc
    ELSE LET datei_pfad == PathJoin(a.output, gguf_dateien[i]) IN
         ZeigeDateien(a, gguf_dateien, i + 1,
            acc \o <<Meldung("datei", gguf_dateien[i])>>
                \o (IF PasstZuQuantisierung(a.quantization, gguf_dateien[i])
                    THEN <<Meldung("ollama", "ollama create mein-phi-modell -f " \o datei_pfad)>>
                    ELSE <<>>))

\* lines 74-107, the try around model.save_pretrained_gguf and the report:
\* [rueckgabe, klasse, ausgabe]
KonverterExport(a, wirft, existiert, liste) ==
    IF wirft
    THEN [rueckgabe |-> 1, klasse |-> "",
          ausgabe |-> <<Meldung("fehler_konvertierung", ""), Meldung("hinweis_llama_cpp", ""),
                        Meldung("hinweis_mistral_common", "")>>]
    ELSE [rueckgabe |-> 0, klasse |-> "",
          ausgabe |-> <<Meldung("erfolg", a.output \o "/")>> \o
              (IF existiert /\ Len(GgufDateien(liste)) > 0
               THEN ZeigeDateien(a, GgufDateien(liste), 1, <<Meldung("erstellt", "")>>)
               ELSE <<>>)]

\* what a step of the converter's main leaves behind
KonverterSchritt(r, danach) ==
    /\ ausgabe' = ausgabe \o r.ausgabe
    /\ rueckgabe' = r.rueckgabe
    /\ IF r.klasse # "" THEN Abbruch(r.klasse, "main")
       ELSE /\ pc' = (IF r.rueckgabe = -1 THEN danach ELSE "ende")
            /\ UNCHANGED fehler

\* from_pretrained raises for a path that holds no model; it may raise for one that does
KonverterMainLaden ==
    /\ pc = "laden"
    /\ aufrufe' = Append(aufrufe, "from_pretrained")
    /\ \E wirft \in BOOLEAN :
          /\ datei.art = "fehlt" => wirft
          /\ Bibliothek("from_pretrained", wirft)
          /\ KonverterSchritt(KonverterLaden(wirft), "export")
    /\ UNCHANGED <<args, datei, cuda_vorhanden, bf16_unterstuetzt, gpu_verfuegbar, rohdaten,
                   dataset, trainer_args, bf16_abfragen, ordner_inhalt>>

KonverterMainExport ==
    /\ pc = "export"
    /\ aufrufe' = Append(aufrufe, "save_pretrained_gguf")
    /\ \E wirft \in BOOLEAN :
       \E o \in (IF wirft THEN {[existiert |-> FALSE, liste |-> <<>>]}
                 ELSE OrdnerNachExport(args.quantization)) :
          /\ Bibliothek("save_pretrained_gguf", wirft)
          /\ ordner_inhalt' = o.liste
          /\ KonverterSchritt(KonverterExport(args, wirft, o.existiert, o.liste), "ende")
    /\ UNCHANGED <<args, datei, cuda_vorhanden, bf16_unterstuetzt, gpu_verfuegbar, rohdaten,
                   dataset, trainer_args, bf16_abfragen>>

NextKonverter ==
    \/ KonverterMainLaden
    \/ KonverterMainExport

SpecKonverter == InitKonverter /\ [][NextKonverter]_vars

(***************************************************************************)
(* The claims.                                                             *)
(***************************************************************************)
Aufgerufen(name) == \E i \in 1..Len(aufrufe) : aufrufe[i] = name

Gedruckt(art) == \E i \in 1..Len(ausgabe) : ausgabe[i].art = art

GedrucktMit(art, text) == \E i \in 1..Len(ausgabe) : ausgabe[i] = Meldung(art, text)

ModellAufrufe ==
    {"lade_modell", "konfiguriere_lora", "trainiere", "teste_modell", "exportiere_gguf"}

Datenschritte == {"lade_daten", "bereite_dataset_vor"}

OutputFehlt(e) == e.art # "dict" \/ ~e.hat_output

OutputFehltIrgendwo ==
    /\ datei.art = "liste"
    /\ Len(datei.inhalt) > 0
    /\ \E i \in 1..Len(datei.inhalt) : OutputFehlt(datei.inhalt[i])

\* C1: a file that parses as a non-empty list in which some entry, at any
\* position, lacks 'output' makes the run fail in the data steps (the spec's
\* DataError: the KeyError or TypeError of the missing field, uncaught), and no
\* model-related method has been called before it fails; the run cannot go on
\* past the data steps.
C1_DataErrorVorModell ==
    OutputFehltIrgendwo =>
        /\ pc \in {"start", "lade_daten", "bereite_dataset_vor", "abgebrochen"}
        /\ \A m \in ModellAufrufe : ~Aufgerufen(m)
        /\ bibliothek_fehler = {}
        /\ pc = "abgebrochen" =>
              /\ fehler.ort \in Datenschritte
              /\ fehler.klasse \in {"KeyError", "TypeError"}
        /\ pc # "abgebrochen" => ENABLED Next

\* C1's case: the first entry is complete, the second lacks 'output', and the
\* run has failed while rendering.
C1_Witness ==
    /\ pc = "abgebrochen"
    /\ datei.art = "liste"
    /\ Len(datei.inhalt) = 2
    /\ ~OutputFehlt(datei.inhalt[1]) /\ datei.inhalt[1].hat_input
    /\ datei.inhalt[2] = OhneOutput("<div>Phone</div>")
    /\ fehler = [klasse |-> "KeyError", ort |-> "bereite_dataset_vor"]

LadenMisslungen == "from_pretrained" \in bibliothek_fehler

ExportMisslungen == "save_pretrained_gguf" \in bibliothek_fehler

\* C2: the converter's main returns 0 exactly when the model load and the
\* export call both returned; it returns 1 when the load raised (as it does
\* for a path that does not exist) and 1 when the export raised, each time
\* after its remediation message; no exception of either call leaves main;
\* after a failed load the export is not attempted.
C2_Exitcode ==
    /\ fehler.klasse = "" /\ pc # "abgebrochen"
    /\ bibliothek_fehler # {} => pc = "ende"
    /\ pc # "ende" => rueckgabe = -1
    /\ pc = "ende" =>
          /\ rueckgabe \in {0, 1}
          /\ rueckgabe = 0 <=>
                /\ aufrufe = <<"from_pretrained", "save_pretrained_gguf">>
                /\ bibliothek_fehler = {}
          /\ LadenMisslungen =>
                /\ rueckgabe = 1
                /\ Gedruckt("fehler_laden") /\ Gedruckt("hinweis_pfad")
                /\ ~Aufgerufen("save_pretrained_gguf")
          /\ ExportMisslungen =>
                /\ rueckgabe = 1
                /\ Gedruckt("fehler_konvertierung")
                /\ Gedruckt("hinweis_llama_cpp") /\ Gedruckt("hinweis_mistral_common")
          /\ datei.art = "fehlt" => rueckgabe = 1 /\ Gedruckt("hinweis_pfad")

\* C2's case: the input path does not exist and main has returned 1.
C2_Witness ==
    /\ pc = "ende"
    /\ datei.art = "fehlt"
    /\ LadenMisslungen
    /\ rueckgabe = 1

\* the trainer's export call has returned
ExportZurueck == Aufgerufen("exportiere_gguf") /\ ~ExportMisslungen

EnthaeltQ4KM(name) == Enthaelt("Q4-K-M", Upper(name))

GgufOrdner == "ausgabe/gguf_modell"

\* C3 as claimed: after the export call returns, if any file of the directory
\* has a name that case-insensitively contains 'Q4-K-M', success is reported
\* with the path of such a file; if none has, the warning is printed and the
\* operation returns normally.
C3_Original ==
    ExportZurueck =>
        IF \E i \in 1..Len(ordner_inhalt) : EnthaeltQ4KM(ordner_inhalt[i])
        THEN \E i \in 1..Len(ordner_inhalt) :
                /\ EnthaeltQ4KM(ordner_inhalt[i])
                /\ GedrucktMit("erfolg", GgufOrdner \o "/" \o ordner_inhalt[i])
        ELSE Gedruckt("warnung") /\ fehler.klasse = "" /\ pc = "fertig"

Q4KMGguf == SelectSeq(ordner_inhalt, LAMBDA f : EndsWith(f, ".gguf") /\ EnthaeltQ4KM(f))

\* C3 as amended: after the export call returns, if any file of the directory
\* has a name that ends in '.gguf' and case-insensitively contains 'Q4-K-M',
\* success is reported with the path of the first such file of the listing and
\* no warning is printed; if none has, the warning is printed, no success is
\* reported and the operation returns normally.
C3_ErsteGgufDatei ==
    ExportZurueck =>
        /\ fehler.klasse = "" /\ pc = "fertig"
        /\ IF Q4KMGguf # <<>>
           THEN /\ GedrucktMit("erfolg", GgufOrdner \o "/" \o Q4KMGguf[1])
                /\ \A i \in 1..Len(ausgabe) :
                      ausgabe[i].art = "erfolg" =>
                          ausgabe[i].text = GgufOrdner \o "/" \o Q4KMGguf[1]
                /\ ~Gedruckt("warnung")
           ELSE Gedruckt("warnung") /\ ~Gedruckt("erfolg")

\* C3's case: a matching name without the suffix comes first, a lower-case
\* matching .gguf file second, and the second is the one reported.
C3_Witness ==
    /\ ExportZurueck
    /\ ordner_inhalt = <<"modell-Q4-K-M.bin", "modell-q4-k-m.gguf">>
    /\ GedrucktMit("erfolg", "ausgabe/gguf_modell/modell-q4-k-m.gguf")

PhonePrompt == "### Eingabe: <div>Phone</div>\n### Ausgabe: {\"name\": \"Phone\"}<|endoftext|>"

DatasetErstellt == Gedruckt("dataset")

\* C4: bereite_dataset_vor yields one rendered string per example, in the
\* order of the examples, each the concatenation '### Eingabe: ' + input +
\* '\n### Ausgabe: ' + json.dumps(output) + '<|endoftext|>'; the Phone record
\* renders to the string the spec gives.
C4_EinPromptJeBeispiel ==
    DatasetErstellt =>
        /\ rohdaten = datei.inhalt
        /\ Len(dataset) = Len(rohdaten)
        /\ ausgabe[Len(ausgabe)] = Meldung("dataset", IntToStr(Len(rohdaten)))
        /\ \A i \in 1..Len(rohdaten) :
              /\ dataset[i] = "### Eingabe: " \o rohdaten[i].input \o "\n### Ausgabe: "
                              \o json_dumps(rohdaten[i].output) \o "<|endoftext|>"
              /\ rohdaten[i] = PhoneBeispiel => dataset[i] = PhonePrompt

\* C4's case: two different examples, the Phone record second, rendered.
C4_Witness ==
    /\ DatasetErstellt
    /\ Len(dataset) = 2
    /\ rohdaten[1] = TabletBeispiel
    /\ rohdaten[2] = PhoneBeispiel
    /\ dataset[2] = PhonePrompt

Trenner == "\n### Ausgabe: "

Endmarke == "<|endoftext|>"

\* where the renderer's own separator starts: its last occurrence in the prompt
LetzterTrenner(text) ==
    CHOOSE i \in 1..Len(text) :
        /\ BeginntBei(text, i, Trenner)
        /\ \A j \in (i + 1)..Len(text) : ~BeginntBei(text, j, Trenner)

\* the output segment: after the separator, before the terminating marker
AusgabeSegment(text) ==
    SubSeq(text, LetzterTrenner(text) + Len(Trenner), Len(text) - Len(Endmarke))

\* C5: for every rendered example, whatever marker text its input or its
\* output holds, the prompt ends with '<|endoftext|>', and deserializing the
\* output segment (after the renderer's '\n### Ausgabe: ', before the
\* terminating '<|endoftext|>') yields the example's output value.
C5_RoundTrip ==
    DatasetErstellt =>
        \A i \in 1..Len(dataset) :
            /\ EndsWith(dataset[i], Endmarke)
            /\ Enthaelt(Trenner, dataset[i])
            /\ LetzterTrenner(dataset[i]) = Len("### Eingabe: ") + Len(rohdaten[i].input) + 1
            /\ json_loads(AusgabeSegment(dataset[i])) =
                   [ok |-> TRUE, wert |-> rohdaten[i].output]

\* C5's case: the input holds the separator and the end marker, and so does a
\* string inside the output.
C5_Witness ==
    /\ DatasetErstellt
    /\ Len(dataset) = 1
    /\ rohdaten[1].input = "a\n### Ausgabe: 1<|endoftext|>"
    /\ rohdaten[1].output = JList(<<JStr("x\n### Ausgabe: 1<|endoftext|>")>>)

\* C6 as claimed: the precision flags handed to the trainer depend on
\* gpu_verfuegbar alone: whatever torch.cuda.is_bf16_supported() answers, the
\* same flags are passed.
C6_Original ==
    trainer_args.gesetzt =>
        \A b \in BOOLEAN : trainer_args = Praezision(gpu_verfuegbar, b)

\* C6 as amended: the precision flags are a function of the two probe results
\* gpu_verfuegbar (the startup probe, unchanged since) and
\* torch.cuda.is_bf16_supported(): bf16 is on exactly when both are true, fp16
\* exactly when a GPU is there without bf16 support; without a GPU both are
\* off whatever the second probe would answer.
C6_ZweiProben ==
    /\ pc # "start" => gpu_verfuegbar = cuda_vorhanden
    /\ trainer_args.gesetzt =>
          /\ trainer_args.fp16 = (gpu_verfuegbar /\ ~bf16_unterstuetzt)
          /\ trainer_args.bf16 = (gpu_verfuegbar /\ bf16_unterstuetzt)

\* C6's case: a GPU with bf16 support, and the trainer got bf16.
C6_Witness ==
    /\ trainer_args.gesetzt
    /\ gpu_verfuegbar /\ bf16_unterstuetzt
    /\ trainer_args.bf16 /\ ~trainer_args.fp16

ErwarteteAufrufe(a) ==
    <<"lade_daten", "bereite_dataset_vor", "lade_modell", "konfiguriere_lora">>
    \o (IF a.nur_test THEN <<>> ELSE <<"trainiere">>)
    \o <<"teste_modell">>
    \o (IF a.nur_test \/ a.kein_export THEN <<>> ELSE <<"exportiere_gguf">>)

Anzahl(name) == Cardinality({i \in 1..Len(aufrufe) : aufrufe[i] = name})

\* C7: in a run in which no step raises, the steps executed are load data,
\* prepare dataset, load model, configure adapter, training iff --nur-test is
\* absent, the smoke test once, the export iff --nur-test and --kein-export
\* are both absent, in this order; in every run the steps executed so far are
\* a prefix of that sequence.
C7_Schrittfolge ==
    /\ Len(aufrufe) <= Len(ErwarteteAufrufe(args))
    /\ aufrufe = SubSeq(ErwarteteAufrufe(args), 1, Len(aufrufe))
    /\ pc = "fertig" =>
          /\ aufrufe = ErwarteteAufrufe(args)
          /\ Anzahl("teste_modell") = 1
          /\ Aufgerufen("trainiere") <=> ~args.nur_test
          /\ Aufgerufen("exportiere_gguf") <=> (~args.nur_test /\ ~args.kein_export)
          /\ Aufgerufen("exportiere_gguf") => Aufgerufen("trainiere")

\* C7's case: --nur-test without --kein-export has run to the end.
C7_Witness ==
    /\ pc = "fertig"
    /\ args.nur_test /\ ~args.kein_export
    /\ aufrufe = <<"lade_daten", "bereite_dataset_vor", "lade_modell", "konfiguriere_lora",
                   "teste_modell">>

\* C8: in the trainer's export step a missing output file only draws the
\* warning: the step returns and main prints its completion message last;
\* an exception of the library's export call is not caught: it leaves main,
\* and neither the warning nor the completion message is printed.
C8_WarnungOderAbbruch ==
    /\ (ExportZurueck /\ Q4KMGguf = <<>>) =>
          /\ Gedruckt("warnung")
          /\ fehler.klasse = ""
          /\ pc = "fertig"
          /\ ausgabe[Len(ausgabe)].art = "fertig"
    /\ (Aufgerufen("exportiere_gguf") /\ ExportMisslungen) =>
          /\ pc = "abgebrochen"
          /\ fehler = [klasse |-> "RuntimeError", ort |-> "exportiere_gguf"]
          /\ ~Gedruckt("warnung")
          /\ ~Gedruckt("fertig")

\* C8's case: the export returned and left no model file behind.
C8_Witness ==
    /\ ExportZurueck
    /\ ordner_inhalt = <<"config.json">>
    /\ Gedruckt("warnung")
    /\ pc = "fertig"

\* the name the docstring of exportiere_gguf gives the quantized file
DokumentierterName(q) == "unsloth." \o Upper(q) \o ".gguf"

\* C9 as claimed: when the export leaves the files its documentation names
\* (unsloth.BF16.gguf and unsloth.Q4_K_M.gguf, in general unsloth.<LABEL>.gguf),
\* exportiere_gguf reports success with the path of the quantized file and
\* prints no warning, and the converter prints the Ollama command for it.
C9_DokumentierteDatei ==
    /\ (/\ ExportZurueck
        /\ \E i \in 1..Len(ordner_inhalt) : ordner_inhalt[i] = DokumentierterName("q4_k_m"))
       => /\ GedrucktMit("erfolg", GgufOrdner \o "/" \o DokumentierterName("q4_k_m"))
          /\ ~Gedruckt("warnung")
    /\ (/\ pc = "ende" /\ rueckgabe = 0
        /\ \E i \in 1..Len(ordner_inhalt) :
              ordner_inhalt[i] = DokumentierterName(args.quantization))
       => GedrucktMit("ollama", "ollama create mein-phi-modell -f "
                                \o args.output \o "/" \o DokumentierterName(args.quantization))

\* C10: the precision flags handed to the trainer are never both on; exactly
\* one is on when a GPU is available; both are off when none is, and then
\* torch.cuda.is_bf16_supported() has not been called.
C10_NieBeide ==
    /\ ~trainer_args.gesetzt => bf16_abfragen = 0
    /\ trainer_args.gesetzt =>
          /\ ~(trainer_args.fp16 /\ trainer_args.bf16)
          /\ gpu_verfuegbar => (trainer_args.fp16 # trainer_args.bf16)
          /\ ~gpu_verfuegbar =>
                /\ ~trainer_args.fp16 /\ ~trainer_args.bf16
                /\ bf16_abfragen = 0

\* C10's case: no GPU on a machine whose bf16 probe would answer yes, and the
\* trainer was configured without asking it.
C10_Witness ==
    /\ trainer_args.gesetzt
    /\ ~gpu_verfuegbar /\ bf16_unterstuetzt
    /\ ~trainer_args.fp16 /\ ~trainer_args.bf16
    /\ bf16_abfragen = 0

====
